---- MODULE Spec2Model ----
(***************************************************************************)
(* Model of the two services of the repository.                            *)
(*                                                                         *)
(*   src/server.py     the Flask file-storage service: whole-file upload,  *)
(*                     chunked upload with server-side reassembly, delete, *)
(*                     listing and download.  It is served by a threaded   *)
(*                     server, so the file-system calls of two requests    *)
(*                     interleave: every file-system call is one step.     *)
(*   src/ozima/api.py  the FastAPI service: directory size and file copy   *)
(*                     behind a bearer-token check.  Its handlers are      *)
(*                     `async def` bodies without an await, so a request   *)
(*                     runs to completion on the event loop: one step.     *)
(*                                                                         *)
(* The file system is modelled by functions whose DOMAIN is the set of     *)
(* entries that exist.  Upload-ids are plain directory names.              *)
(***************************************************************************)
EXTENDS Integers, Sequences, FiniteSets, TLC

\* ------------------------------------------------------------------ bounds
\* Largest chunk_number / total_chunks a request carries: from concurrent
\* clients, and from a single client that waits for each response.
MaxChunks == 2
MaxSeqChunks == 3
\* Number of requests the storage service receives in one behaviour: from
\* concurrent clients, and from a single client that waits for each response.
MaxRequests == 2
MaxSeqRequests == 3
\* Number of requests the API service receives in one behaviour.
MaxApiRequests == 2

\* ------------------------------------------------------------- input sets
\* Request threads of the storage service.
Procs == {1, 2}
\* Names as they arrive in the URL of the storage service.
RawNames == {"a b"}
\* Chunk payloads and whole-file payloads.
Data == {<<1>>, <<2>>}
\* Values of the multipart part `file`: absent, present with an empty
\* filename, present.
FileParts == {"absent", "empty", "ok"}
\* The form field file_id: omitted, or given by the client.
Omitted == "omitted"
GivenIds == {"u1"}

VARIABLES
    storage,    \* regular files of the storage root: name -> bytes
    temp_root,  \* does the directory storage/temp exist
    temp,       \* storage/temp: upload-id -> (chunk number -> bytes)
    pc,         \* per request thread: the next file-system call
    rq,         \* per request thread: the request and the handler's locals
    resp,       \* per request thread: the last response
    nreq,       \* requests received so far
    pair,       \* history: two chunk uploads of one upload-id that started
                \* in the same file-system state, and that state
    hist,       \* history of a client that waits for each response: its last
                \* failed and its last completed reassembly, and the last
                \* chunk file it replaced by other bytes
    api_fs,     \* the host file system the API service works on: path -> node
    api_rq,     \* the last request the API service received
    api_resp,   \* its response
    api_nreq    \* requests the API service received so far

server_vars == <<storage, temp_root, temp, pc, rq, resp, nreq, pair, hist>>
api_vars == <<api_fs, api_rq, api_resp, api_nreq>>
vars == <<server_vars, api_vars>>

\* The file system as one value.
FS == [storage |-> storage, temp_root |-> temp_root, temp |-> temp]

\* -------------------------------------------------------- pure functions
EmptyFn == [x \in {} |-> x]

Without(f, k) == [x \in DOMAIN f \ {k} |-> f[x]]

Max(a, b) == IF a >= b THEN a ELSE b

\* A write that ignores the handle's position and replaces the file.
WriteAt_replace(c, off, d) == d

\* A write of d through a handle positioned at byte offset off of a file
\* holding c: bytes outside the written range are kept, a gap is zero-filled.
WriteAt(c, off, d) ==
    [i \in 1..Max(Len(c), off + Len(d)) |->
        IF i > off /\ i <= off + Len(d) THEN d[i - off]
        ELSE IF i <= Len(c) THEN c[i]
        ELSE 0]

\* werkzeug's secure_filename on the names of RawNames: whitespace becomes
\* an underscore.
secure_filename(name) ==
    CASE name = "a b" -> "a_b"
      [] OTHER -> name

\* FileStorageServer.get_file_path: the name of the file in the storage root.
get_file_path(filename) == secure_filename(filename)

\* hashlib.md5(filename.encode()).hexdigest(), injective on RawNames.
md5(name) ==
    CASE name = "a b" -> "md5_a_b"
      [] OTHER -> "md5_other"

\* An upload-id that is the form field, sent or not.
form_file_id_verbatim(given, filename) == given

\* request.form.get('file_id', md5(filename))
form_file_id(given, filename) == IF given = Omitted THEN md5(filename) ELSE given

UploadIds == GivenIds \cup {md5(n) : n \in RawNames}

\* The entries os.listdir(storage_path) returns.
listdir_storage == DOMAIN storage \cup (IF temp_root THEN {"temp"} ELSE {})

\* A listing that takes every directory entry for a file.
isfile_any(name) == TRUE

\* os.path.isfile on an entry of the storage root.
isfile(name) == name \in DOMAIN storage

\* FileStorageServer.get_file_info: the size of the file, -1 for None.
get_file_info(filename) ==
    IF get_file_path(filename) \in DOMAIN storage
    THEN Len(storage[get_file_path(filename)])
    ELSE -1

\* FileStorageServer.list_files: name -> info of every regular file.
list_files == [n \in {e \in listdir_storage : isfile(e)} |-> get_file_info(n)]

\* download_file: the exists test on the sanitized path, then
\* send_from_directory on the name as given; the bytes served, or 404.
download_file(filename) ==
    IF get_file_path(filename) \in DOMAIN storage /\ filename \in DOMAIN storage
    THEN [status |-> 200, body |-> storage[filename]]
    ELSE [status |-> 404, body |-> <<>>]

\* ------------------------------------------------- the API service (api.py)
\* settings.API_TOKEN
API_TOKEN == "100500300"

\* The Authorization header of a request: absent, or its text.
NoHeader == "<no header>"
AuthHeaders == {NoHeader, "Bearer " \o API_TOKEN, "Bearer 0", API_TOKEN}

\* Paths of the host file system, and the directory each lies in.
ApiPaths == {"/d", "/d/a", "/d/b", "/d/k", "/d/l", "/d/s", "/d/s/c", "/e"}

Parent(path) ==
    CASE path \in {"/d/a", "/d/b", "/d/k", "/d/l", "/d/s"} -> "/d"
      [] path = "/d/s/c" -> "/d/s"
      [] OTHER -> "/"

\* Nodes: a regular file with its bytes, a directory, a symbolic link.
File(data) == [kind |-> "file", data |-> data, target |-> ""]
Dir == [kind |-> "dir", data |-> <<>>, target |-> ""]
Link(target) == [kind |-> "link", data |-> <<>>, target |-> target]

ApiContents == {<<1>>, <<2, 2>>}

ApiRootOnly == ("/d" :> Dir) @@ ("/e" :> File(<<3, 3, 3>>))

\* Optional entry at path: absent or one of nodes.
Opt(path, nodes) == {EmptyFn} \cup {(path :> n) : n \in nodes}

\* The file systems a behaviour of the API service starts in: the directory
\* /d with any of two files, a symbolic link to a file inside or outside /d,
\* a symbolic link to the subdirectory, and a subdirectory with or without a
\* file; /e lies outside /d.
ApiTrees ==
    {a @@ b @@ k @@ l @@ s @@ ApiRootOnly :
        a \in Opt("/d/a", {File(c) : c \in ApiContents}),
        b \in Opt("/d/b", {File(c) : c \in ApiContents}),
        k \in Opt("/d/k", {Link("/d/s")}),
        l \in Opt("/d/l", {Link("/d/a"), Link("/e")}),
        s \in {EmptyFn, ("/d/s" :> Dir)}
              \cup {("/d/s" :> Dir) @@ ("/d/s/c" :> File(c)) : c \in ApiContents}}

NoApiRequest ==
    [endpoint |-> "none", authorization |-> NoHeader, path |-> "",
     source |-> "", destination |-> "", overwrite |-> FALSE]

NoApiResponse == [status |-> 0, error |-> "", raised |-> 0, size_bytes |-> 0]

\* A response of the API service: the status code, the exception that caused
\* an error status, the status of an HTTPException raised inside the handler's
\* try block, and the size a directory_size answer reports.
ApiResponse(status, error, raised, size) ==
    [status |-> status, error |-> error, raised |-> raised, size_bytes |-> size]

\* Header(...) declares the header as required: FastAPI answers a request
\* without it 422 before verify_token runs.  verify_token, lines 37-44.
\* The result is 0 when the token is accepted.
verify_token(authorization) ==
    IF authorization = NoHeader THEN 422
    ELSE IF authorization # "Bearer " \o API_TOKEN THEN 401
    ELSE 0

\* A test that takes only a link whose target is missing for a symbolic link.
islink_dangling(fs, path) ==
    path \in DOMAIN fs /\ fs[path].kind = "link" /\ fs[path].target \notin DOMAIN fs

\* os.path.islink
islink(fs, path) == path \in DOMAIN fs /\ fs[path].kind = "link"

\* A path with its symbolic link followed.
Resolve(fs, path) ==
    IF path \in DOMAIN fs /\ fs[path].kind = "link" THEN fs[path].target ELSE path

\* os.path.exists follows symbolic links.
exists(fs, path) == Resolve(fs, path) \in DOMAIN fs

\* What os.walk puts in dirnames: directories, and links to directories.
IsDirEntry(fs, path) ==
    Resolve(fs, path) \in DOMAIN fs /\ fs[Resolve(fs, path)].kind = "dir"

Children(fs, dirpath) == {c \in DOMAIN fs : Parent(c) = dirpath}

RECURSIVE SumSizes(_, _)
\* The sum of os.path.getsize over a set of paths.
SumSizes(fs, paths) ==
    IF paths = {} THEN 0
    ELSE LET f == CHOOSE x \in paths : TRUE
         IN Len(fs[Resolve(fs, f)].data) + SumSizes(fs, paths \ {f})

RECURSIVE walk(_, _)
\* get_directory_size, lines 67-72: the os.walk loop below one directory.
\* Links are not followed below the top; a link among the file names is
\* skipped by the islink test.
walk(fs, dirpath) ==
    LET filenames == {c \in Children(fs, dirpath) : ~IsDirEntry(fs, c)}
        dirnames == {c \in Children(fs, dirpath) : IsDirEntry(fs, c)}
        here == SumSizes(fs, {f \in filenames : ~islink(fs, f)})
        RECURSIVE below(_)
        below(ds) == IF ds = {} THEN 0
                     ELSE LET d == CHOOSE x \in ds : TRUE
                          IN (IF islink(fs, d) THEN 0 ELSE walk(fs, d)) + below(ds \ {d})
    IN here + below(dirnames)

\* get_directory_size: os.walk of a path that is no directory yields nothing.
directory_size(fs, path) == IF IsDirEntry(fs, path) THEN walk(fs, Resolve(fs, path)) ELSE 0

\* shutil.copy2(source, destination) on regular files, links followed: the
\* file system after the copy, or the exception.
copy2(fs, source, destination) ==
    LET s == Resolve(fs, source)
        d == Resolve(fs, destination)
    IN IF s = d /\ d \in DOMAIN fs
       THEN [ok |-> FALSE, error |-> "SameFileError", fs |-> fs]
       ELSE IF Parent(d) \notin DOMAIN fs
       THEN [ok |-> FALSE, error |-> "FileNotFoundError", fs |-> fs]
       ELSE [ok |-> TRUE, error |-> "", fs |-> (d :> File(fs[s].data)) @@ fs]

ApiReceive(req) ==
    /\ api_nreq < MaxApiRequests
    /\ api_nreq' = api_nreq + 1
    /\ api_rq' = req

\* get_directory_size, lines 60-77.
get_directory_size ==
    \E authorization \in AuthHeaders, path \in {"/d", "/d/s", "/d/a", "/nowhere"} :
        /\ ApiReceive([NoApiRequest EXCEPT !.endpoint = "directory_size",
                          !.authorization = authorization, !.path = path])
        /\ api_resp' =
              IF verify_token(authorization) # 0
              THEN ApiResponse(verify_token(authorization), "HTTPException", 0, 0)
              ELSE ApiResponse(200, "", 0, directory_size(api_fs, path))
        /\ UNCHANGED api_fs

\* Paths a copy names: files, or a link to a file.
CopyPaths == {"/d/a", "/d/b", "/d/l", "/d/s/c"}

\* copy_file, lines 80-108.  An HTTPException raised inside the try block is
\* an Exception: the except clause catches it and raises the 500.
copy_file ==
    \E authorization \in AuthHeaders, source \in CopyPaths, destination \in CopyPaths,
       overwrite \in BOOLEAN :
        /\ ApiReceive([NoApiRequest EXCEPT !.endpoint = "copy_file",
                          !.authorization = authorization, !.source = source,
                          !.destination = destination, !.overwrite = overwrite])
        /\ IF verify_token(authorization) # 0
           THEN /\ api_resp' = ApiResponse(verify_token(authorization), "HTTPException", 0, 0)
                /\ UNCHANGED api_fs
           ELSE IF ~exists(api_fs, source)
           THEN /\ api_resp' = ApiResponse(500, "HTTPException", 404, 0)
                /\ UNCHANGED api_fs
           ELSE IF exists(api_fs, destination) /\ ~overwrite
           THEN /\ api_resp' = ApiResponse(500, "HTTPException", 400, 0)
                /\ UNCHANGED api_fs
           ELSE LET c == copy2(api_fs, source, destination)
                IN /\ api_resp' = IF c.ok THEN ApiResponse(200, "", 0, 0)
                                  ELSE ApiResponse(500, c.error, 0, 0)
                   /\ api_fs' = c.fs

\* --------------------------------------------------------------- requests
NoFS == [storage |-> EmptyFn, temp_root |-> FALSE, temp |-> EmptyFn]

\* rq[p]: the request (op .. data; `given` is the form field file_id as the
\* client sent it), the handler's locals (chunk_num, the
\* offset `off` of the open output handle, `unlinked`: the open handle's file
\* was removed by another thread) and two history fields: `solo`, no other
\* request was in flight since this one arrived, and `old`, the file system
\* as a solo request found it.
NoRequest ==
    [op |-> "none", filename |-> "", given |-> Omitted, file_id |-> "",
     is_chunk |-> FALSE, chunk_number |-> 0, total_chunks |-> 0, data |-> <<>>,
     chunk_num |-> 0, off |-> 0, unlinked |-> FALSE, solo |-> FALSE, old |-> NoFS]

NoResponse == [status |-> 0, body |-> "none", arg |-> 0]

\* A response: the status code, the 'status' or 'error' text of the JSON
\* body (the exception's name for a 500), and the chunk number the body or
\* the exception's file name carries (0 when it carries none).
Response(status, body, arg) == [status |-> status, body |-> body, arg |-> arg]

NoPair == [on |-> FALSE, old |-> NoFS, first |-> NoRequest, second |-> NoRequest,
           p1 |-> 1, p2 |-> 1]

\* hist.failed: the reassembly that failed on a missing chunk, with the
\* chunk files it left.  hist.done: the reassembly that completed, with the
\* bytes of its final chunk and the file system it left; `recovered`: the
\* last reassembly of this upload-id before it had failed.  hist.clash: the
\* chunk file that a request without file_id replaced by other bytes.
NoFailed == [on |-> FALSE, file_id |-> "", filename |-> "", total_chunks |-> 0,
             chunks |-> EmptyFn]

NoDone == [on |-> FALSE, file_id |-> "", filename |-> "", total_chunks |-> 0,
           data |-> <<>>, fs |-> NoFS, recovered |-> FALSE]

NoClash == [on |-> FALSE, file_id |-> "", index |-> 0, was |-> <<>>, now |-> <<>>]

NoHist == [failed |-> NoFailed, done |-> NoDone, clash |-> NoClash]

\* The handler of thread p returns: the response is sent and the request
\* with its locals is gone.  r is rq as this step leaves it.
Return(p, r, status, body, arg) ==
    /\ pc' = [pc EXCEPT ![p] = "idle"]
    /\ rq' = [r EXCEPT ![p] = NoRequest]
    /\ resp' = [resp EXCEPT ![p] = Response(status, body, arg)]

\* An uncaught exception in a Flask view: 500.
Raise(p, r, exc, arg) == Return(p, r, 500, exc, arg)

Goto(p, r, label) ==
    /\ pc' = [pc EXCEPT ![p] = label]
    /\ rq' = r
    /\ UNCHANGED resp

\* The handles of other threads that write to the chunk file (id, k) lose
\* their directory entry when the file is removed.
UnlinkChunk(r, p, id, k) ==
    [q \in Procs |->
        IF q # p /\ pc[q] = "chunk_write" /\ r[q].file_id = id /\ r[q].chunk_number = k
        THEN [r[q] EXCEPT !.unlinked = TRUE]
        ELSE r[q]]

\* The same for handles that write to a file of the storage root.
UnlinkStored(r, p, name) ==
    [q \in Procs |->
        IF q # p /\ pc[q] \in {"concat", "save_write"}
                 /\ get_file_path(r[q].filename) = name
        THEN [r[q] EXCEPT !.unlinked = TRUE]
        ELSE r[q]]

\* FileStorageServer.__init__: the storage directory exists and is empty.
InitServer ==
    /\ storage = EmptyFn
    /\ temp_root = FALSE
    /\ temp = EmptyFn
    /\ pc = [p \in Procs |-> "idle"]
    /\ rq = [p \in Procs |-> NoRequest]
    /\ resp = [p \in Procs |-> NoResponse]
    /\ nreq = 0
    /\ pair = NoPair
    /\ hist = NoHist

Init ==
    /\ InitServer
    /\ api_fs = ApiRootOnly
    /\ api_rq = NoApiRequest
    /\ api_resp = NoApiResponse
    /\ api_nreq = 0

\* A request is received by a free thread; threads are interchangeable, and
\* thread 2 takes a request only while thread 1 is busy.
Receive(p) ==
    /\ pc[p] = "idle"
    /\ p = 1 \/ pc[1] # "idle"
    /\ nreq' = nreq + 1

Other(p) == CHOOSE t \in Procs : t # p

\* rq when thread p has received req: a request in flight on the other
\* thread ends the solo run of both.
Received(p, req) ==
    LET q == Other(p)
    IN IF pc[q] = "idle"
       THEN [rq EXCEPT ![p] = [req EXCEPT !.solo = TRUE, !.old = FS]]
       ELSE [rq EXCEPT ![p] = [req EXCEPT !.solo = FALSE, !.old = NoFS],
                       ![q].solo = FALSE, ![q].old = NoFS]

\* The history of a racing pair: req is a chunk upload that arrives while the
\* other thread holds a chunk upload of the same upload (the same upload-id,
\* target name and total_chunks) and another index that has not yet touched
\* the file system; both indices lie in 1..total_chunks.
PairOn(p, req) ==
    LET q == Other(p)
    IN IF /\ req.is_chunk
          /\ pc[q] = "makedirs"
          /\ rq[q].file_id = req.file_id
          /\ rq[q].filename = req.filename
          /\ rq[q].total_chunks = req.total_chunks
          /\ rq[q].chunk_number # req.chunk_number
          /\ rq[q].chunk_number <= req.total_chunks
          /\ req.chunk_number <= req.total_chunks
       THEN [on |-> TRUE, old |-> FS, first |-> rq[q], second |-> req,
             p1 |-> q, p2 |-> p]
       ELSE NoPair

\* upload_file, lines 188-199: the request is validated and its form read;
\* chunk_number and total_chunks lie in 1..n.
upload_file_upto(p, n) ==
    /\ Receive(p)
    /\ \E part \in FileParts, filename \in RawNames, given \in GivenIds \cup {Omitted},
          is_chunk \in BOOLEAN, cn \in 1..n, tc \in 1..n, data \in Data :
        /\ (part # "ok") => (given = Omitted /\ ~is_chunk /\ data = <<1>>)
        /\ ~is_chunk => (cn = 1 /\ tc = 1)
        /\ LET req == [op |-> "upload", filename |-> filename, given |-> given,
                       file_id |-> form_file_id(given, filename),
                       is_chunk |-> is_chunk /\ part = "ok",
                       chunk_number |-> IF is_chunk THEN cn ELSE 0,
                       total_chunks |-> IF is_chunk THEN tc ELSE 0,
                       data |-> IF part = "ok" THEN data ELSE <<>>,
                       chunk_num |-> 0, off |-> 0, unlinked |-> FALSE,
                       solo |-> FALSE, old |-> NoFS]
               r == Received(p, req)
           IN /\ CASE part = "absent" -> Return(p, r, 400, "No file part", 0)
                   [] part = "empty" -> Return(p, r, 400, "No selected file", 0)
                   [] OTHER -> Goto(p, r, IF is_chunk THEN "makedirs" ELSE "save_open")
              /\ pair' = PairOn(p, req)
    /\ UNCHANGED <<storage, temp_root, temp>>

\* save_file_chunk, line 41: os.makedirs(temp_dir, exist_ok=True).
save_file_chunk_makedirs(p) ==
    /\ pc[p] = "makedirs"
    /\ temp_root' = TRUE
    /\ temp' = IF rq[p].file_id \in DOMAIN temp THEN temp
               ELSE (rq[p].file_id :> EmptyFn) @@ temp
    /\ Goto(p, rq, "chunk_open")
    /\ UNCHANGED <<storage, nreq, pair>>

\* The chunk file opened in append mode: nothing is truncated and the
\* handle starts at the end of what is there.
save_file_chunk_open_append(p) ==
    /\ pc[p] = "chunk_open"
    /\ LET id == rq[p].file_id
           k == rq[p].chunk_number
       IN IF id \notin DOMAIN temp
          THEN /\ Raise(p, rq, "FileNotFoundError", k)
               /\ UNCHANGED temp
          ELSE /\ temp' = [temp EXCEPT ![id] = temp[id] @@ (k :> <<>>)]
               /\ Goto(p, [rq EXCEPT ![p].unlinked = FALSE,
                                     ![p].off = Len((temp[id] @@ (k :> <<>>))[k])],
                       "chunk_write")
    /\ UNCHANGED <<storage, temp_root, nreq, pair>>

\* save_file_chunk, line 44: open(chunk_path, 'wb') creates or truncates;
\* the handle starts at offset 0.
save_file_chunk_open(p) ==
    /\ pc[p] = "chunk_open"
    /\ LET id == rq[p].file_id
           k == rq[p].chunk_number
       IN IF id \notin DOMAIN temp
          THEN /\ Raise(p, rq, "FileNotFoundError", k)
               /\ UNCHANGED temp
          ELSE /\ temp' = [temp EXCEPT ![id] = (k :> <<>>) @@ temp[id]]
               /\ Goto(p, [rq EXCEPT ![p].unlinked = FALSE, ![p].off = 0], "chunk_write")
    /\ UNCHANGED <<storage, temp_root, nreq, pair>>

\* A handler that starts the reassembly as soon as every chunk of
\* 1..total_chunks has a chunk file.
save_file_chunk_write_auto(p) ==
    /\ pc[p] = "chunk_write"
    /\ LET id == rq[p].file_id
           k == rq[p].chunk_number
       IN temp' = IF rq[p].unlinked THEN temp
                  ELSE [temp EXCEPT ![id][k] = WriteAt(temp[id][k], rq[p].off, rq[p].data)]
    /\ IF \/ rq[p].chunk_number = rq[p].total_chunks
          \/ /\ rq[p].file_id \in DOMAIN temp
             /\ \A k \in 1..rq[p].total_chunks : k \in DOMAIN temp[rq[p].file_id]
       THEN Goto(p, rq, "assemble_open")
       ELSE Return(p, rq, 200, "chunk_uploaded", rq[p].chunk_number)
    /\ UNCHANGED <<storage, temp_root, nreq, pair>>

\* save_file_chunk, line 45: f.write(chunk_data) and the close of the file;
\* upload_file, lines 206-210: the branch on the final chunk.
save_file_chunk_write(p) ==
    /\ pc[p] = "chunk_write"
    /\ LET id == rq[p].file_id
           k == rq[p].chunk_number
       IN temp' = IF rq[p].unlinked THEN temp
                  ELSE [temp EXCEPT ![id][k] = WriteAt(temp[id][k], rq[p].off, rq[p].data)]
    /\ IF rq[p].chunk_number = rq[p].total_chunks
       THEN Goto(p, rq, "assemble_open")
       ELSE Return(p, rq, 200, "chunk_uploaded", rq[p].chunk_number)
    /\ UNCHANGED <<storage, temp_root, nreq, pair>>

\* The destination opened for exclusive creation: the open fails when the
\* file exists.
assemble_open_exclusive(p) ==
    /\ pc[p] = "assemble_open"
    /\ IF get_file_path(rq[p].filename) \in DOMAIN storage
       THEN /\ Raise(p, rq, "FileExistsError", 0)
            /\ UNCHANGED storage
       ELSE /\ storage' = (get_file_path(rq[p].filename) :> <<>>) @@ storage
            /\ Goto(p, [rq EXCEPT ![p].chunk_num = 1, ![p].off = 0,
                                  ![p].unlinked = FALSE], "concat")
    /\ UNCHANGED <<temp_root, temp, nreq, pair>>

\* assemble_file_from_chunks, line 59: open(file_path, 'wb').
assemble_open(p) ==
    /\ pc[p] = "assemble_open"
    /\ storage' = (get_file_path(rq[p].filename) :> <<>>) @@ storage
    /\ Goto(p, [rq EXCEPT ![p].chunk_num = 1, ![p].off = 0, ![p].unlinked = FALSE],
            "concat")
    /\ UNCHANGED <<temp_root, temp, nreq, pair>>

\* A concatenation loop that swallows the failed open of a chunk file and
\* reports success.
assemble_concat_swallow(p) ==
    /\ pc[p] = "concat"
    /\ LET id == rq[p].file_id
           k == rq[p].chunk_num
           name == get_file_path(rq[p].filename)
       IN IF id \notin DOMAIN temp \/ k \notin DOMAIN temp[id]
          THEN /\ Return(p, rq, 200, "completed", 0)
               /\ UNCHANGED storage
          ELSE /\ storage' = IF rq[p].unlinked THEN storage
                             ELSE [storage EXCEPT ![name] =
                                      WriteAt(storage[name], rq[p].off, temp[id][k])]
               /\ IF k = rq[p].total_chunks
                  THEN Goto(p, [rq EXCEPT ![p].chunk_num = 1, ![p].off = 0,
                                          ![p].unlinked = FALSE], "remove")
                  ELSE Goto(p, [rq EXCEPT ![p].chunk_num = k + 1,
                                          ![p].off = rq[p].off + Len(temp[id][k])],
                            "concat")
    /\ UNCHANGED <<temp_root, temp, nreq, pair>>

\* A concatenation loop that cleans up: when a chunk file cannot be opened,
\* the temporary directory is removed with the chunk files left in it.
assemble_concat_cleanup(p) ==
    /\ pc[p] = "concat"
    /\ LET id == rq[p].file_id
           k == rq[p].chunk_num
           name == get_file_path(rq[p].filename)
       IN IF id \notin DOMAIN temp \/ k \notin DOMAIN temp[id]
          THEN /\ Raise(p, rq, "FileNotFoundError", k)
               /\ temp' = Without(temp, id)
               /\ UNCHANGED storage
          ELSE /\ storage' = IF rq[p].unlinked THEN storage
                             ELSE [storage EXCEPT ![name] =
                                      WriteAt(storage[name], rq[p].off, temp[id][k])]
               /\ IF k = rq[p].total_chunks
                  THEN Goto(p, [rq EXCEPT ![p].chunk_num = 1, ![p].off = 0,
                                          ![p].unlinked = FALSE], "remove")
                  ELSE Goto(p, [rq EXCEPT ![p].chunk_num = k + 1,
                                          ![p].off = rq[p].off + Len(temp[id][k])],
                            "concat")
               /\ UNCHANGED temp
    /\ UNCHANGED <<temp_root, nreq, pair>>

\* A concatenation loop that rolls back: when a chunk file cannot be opened,
\* the partly written destination is removed before the error is raised.
assemble_concat_rollback(p) ==
    /\ pc[p] = "concat"
    /\ LET id == rq[p].file_id
           k == rq[p].chunk_num
           name == get_file_path(rq[p].filename)
       IN IF id \notin DOMAIN temp \/ k \notin DOMAIN temp[id]
          THEN /\ Raise(p, rq, "FileNotFoundError", k)
               /\ storage' = Without(storage, name)
          ELSE /\ storage' = IF rq[p].unlinked THEN storage
                             ELSE [storage EXCEPT ![name] =
                                      WriteAt(storage[name], rq[p].off, temp[id][k])]
               /\ IF k = rq[p].total_chunks
                  THEN Goto(p, [rq EXCEPT ![p].chunk_num = 1, ![p].off = 0,
                                          ![p].unlinked = FALSE], "remove")
                  ELSE Goto(p, [rq EXCEPT ![p].chunk_num = k + 1,
                                          ![p].off = rq[p].off + Len(temp[id][k])],
                            "concat")
    /\ UNCHANGED <<temp_root, temp, nreq, pair>>

\* assemble_file_from_chunks, lines 60-63: one turn of the concatenation
\* loop; the output file is closed when the loop ends or an open fails.
assemble_concat(p) ==
    /\ pc[p] = "concat"
    /\ LET id == rq[p].file_id
           k == rq[p].chunk_num
           name == get_file_path(rq[p].filename)
       IN IF id \notin DOMAIN temp \/ k \notin DOMAIN temp[id]
          THEN /\ Raise(p, rq, "FileNotFoundError", k)
               /\ UNCHANGED storage
          ELSE /\ storage' = IF rq[p].unlinked THEN storage
                             ELSE [storage EXCEPT ![name] =
                                      WriteAt(storage[name], rq[p].off, temp[id][k])]
               /\ IF k = rq[p].total_chunks
                  THEN Goto(p, [rq EXCEPT ![p].chunk_num = 1, ![p].off = 0,
                                          ![p].unlinked = FALSE], "remove")
                  ELSE Goto(p, [rq EXCEPT ![p].chunk_num = k + 1,
                                          ![p].off = rq[p].off + Len(temp[id][k])],
                            "concat")
    /\ UNCHANGED <<temp_root, temp, nreq, pair>>

\* assemble_file_from_chunks, lines 66-68: one turn of the clean-up loop.
assemble_remove(p) ==
    /\ pc[p] = "remove"
    /\ LET id == rq[p].file_id
           k == rq[p].chunk_num
       IN IF id \notin DOMAIN temp \/ k \notin DOMAIN temp[id]
          THEN /\ Raise(p, rq, "FileNotFoundError", k)
               /\ UNCHANGED temp
          ELSE /\ temp' = [temp EXCEPT ![id] = Without(temp[id], k)]
               /\ IF k = rq[p].total_chunks
                  THEN Goto(p, [UnlinkChunk(rq, p, id, k) EXCEPT ![p].chunk_num = 0],
                            "rmdir")
                  ELSE Goto(p, [UnlinkChunk(rq, p, id, k) EXCEPT ![p].chunk_num = k + 1],
                            "remove")
    /\ UNCHANGED <<storage, temp_root, nreq, pair>>

\* A clean-up that removes every temporary directory with what is in it.
assemble_rmdir_all(p) ==
    /\ pc[p] = "rmdir"
    /\ IF rq[p].file_id \notin DOMAIN temp
       THEN /\ Raise(p, rq, "FileNotFoundError", 0)
            /\ UNCHANGED temp
       ELSE /\ temp' = EmptyFn
            /\ Return(p, rq, 200, "completed", 0)
    /\ UNCHANGED <<storage, temp_root, nreq, pair>>

\* A clean-up that ignores the failure of os.rmdir.
assemble_rmdir_ignore(p) ==
    /\ pc[p] = "rmdir"
    /\ LET id == rq[p].file_id
       IN IF id \in DOMAIN temp /\ DOMAIN temp[id] = {}
          THEN temp' = Without(temp, id)
          ELSE UNCHANGED temp
    /\ Return(p, rq, 200, "completed", 0)
    /\ UNCHANGED <<storage, temp_root, nreq, pair>>

\* assemble_file_from_chunks, lines 69-71, and upload_file, line 208.
assemble_rmdir(p) ==
    /\ pc[p] = "rmdir"
    /\ LET id == rq[p].file_id
       IN IF id \notin DOMAIN temp
          THEN /\ Raise(p, rq, "FileNotFoundError", 0)
               /\ UNCHANGED temp
          ELSE IF DOMAIN temp[id] # {}
          THEN /\ Raise(p, rq, "OSError", 0)
               /\ UNCHANGED temp
          ELSE /\ temp' = Without(temp, id)
               /\ Return(p, rq, 200, "completed", 0)
    /\ UNCHANGED <<storage, temp_root, nreq, pair>>

\* upload_file, lines 213-214: file.save(file_path) opens the destination.
upload_file_save_open(p) ==
    /\ pc[p] = "save_open"
    /\ storage' = (get_file_path(rq[p].filename) :> <<>>) @@ storage
    /\ Goto(p, [rq EXCEPT ![p].unlinked = FALSE], "save_write")
    /\ UNCHANGED <<temp_root, temp, nreq, pair>>

\* upload_file, lines 214-215: file.save copies the payload and closes.
upload_file_save_write(p) ==
    /\ pc[p] = "save_write"
    /\ LET name == get_file_path(rq[p].filename)
       IN storage' = IF rq[p].unlinked THEN storage
                     ELSE [storage EXCEPT ![name] = WriteAt(storage[name], 0, rq[p].data)]
    /\ Return(p, rq, 200, "success", 0)
    /\ UNCHANGED <<temp_root, temp, nreq, pair>>

\* delete_file (view, line 183) and FileStorageServer.delete_file, line 81:
\* the existence test.
delete_file(p) ==
    /\ Receive(p)
    /\ \E filename \in RawNames :
        LET r == Received(p, [NoRequest EXCEPT !.op = "delete",
                                                 !.filename = filename])
        IN IF get_file_path(filename) \in DOMAIN storage
           THEN Goto(p, r, "delete_remove")
           ELSE Return(p, r, 404, "File not found", 0)
    /\ pair' = NoPair
    /\ UNCHANGED <<storage, temp_root, temp>>

\* FileStorageServer.delete_file, lines 82-83: os.remove(file_path).
delete_file_remove(p) ==
    /\ pc[p] = "delete_remove"
    /\ LET name == get_file_path(rq[p].filename)
       IN IF name \notin DOMAIN storage
          THEN /\ Raise(p, rq, "FileNotFoundError", 0)
               /\ UNCHANGED storage
          ELSE /\ storage' = Without(storage, name)
               /\ Return(p, UnlinkStored(rq, p, name), 200, "success", 0)
    /\ UNCHANGED <<temp_root, temp, nreq, pair>>

upload_file(p) == upload_file_upto(p, MaxChunks)

\* The steps of a request once it is received and validated.
Handle(p) ==
    \/ save_file_chunk_makedirs(p)
    \/ save_file_chunk_open(p)
    \/ save_file_chunk_write(p)
    \/ assemble_open(p)
    \/ assemble_concat(p)
    \/ assemble_remove(p)
    \/ assemble_rmdir(p)
    \/ upload_file_save_open(p)
    \/ upload_file_save_write(p)
    \/ delete_file_remove(p)

Step(p) ==
    \/ upload_file(p)
    \/ delete_file(p)
    \/ Handle(p)

\* The threaded server: the requests of all threads interleave.
Next ==
    /\ \E p \in Procs : (pc[p] = "idle" => nreq < MaxRequests) /\ Step(p)
    /\ UNCHANGED <<hist, api_vars>>

Spec == Init /\ [][Next]_vars

\* What the waiting client has seen after this step: the response to a
\* final chunk request (upload_file, lines 206-208) is 'completed', or the
\* 500 of a chunk file that was missing in the concatenation loop; the
\* response to another chunk request (line 210) came after save_file_chunk
\* replaced a chunk file that held other bytes.
Observed ==
    LET r == rq[1]
        answered == pc[1] # "idle" /\ pc'[1] = "idle"
        fs == [storage |-> storage', temp_root |-> temp_root', temp |-> temp']
        found == IF r.file_id \in DOMAIN r.old.temp THEN r.old.temp[r.file_id]
                 ELSE EmptyFn
    IN IF ~(answered /\ r.is_chunk) THEN hist
       ELSE IF r.chunk_number # r.total_chunks
       THEN IF /\ r.given = Omitted
               /\ r.chunk_number \in DOMAIN found
               /\ found[r.chunk_number] # r.data
            THEN [hist EXCEPT !.clash =
                     [on |-> TRUE, file_id |-> r.file_id, index |-> r.chunk_number,
                      was |-> found[r.chunk_number], now |-> r.data]]
            ELSE hist
       ELSE IF resp'[1].body = "completed"
       THEN [hist EXCEPT
                !.failed = IF hist.failed.file_id = r.file_id THEN NoFailed
                           ELSE hist.failed,
                !.done = [on |-> TRUE, file_id |-> r.file_id, filename |-> r.filename,
                          total_chunks |-> r.total_chunks, data |-> r.data, fs |-> fs,
                          recovered |-> hist.failed.on /\ hist.failed.file_id = r.file_id]]
       ELSE IF pc[1] = "concat" /\ resp'[1].body = "FileNotFoundError"
       THEN [hist EXCEPT !.failed =
                [on |-> TRUE, file_id |-> r.file_id, filename |-> r.filename,
                 total_chunks |-> r.total_chunks,
                 chunks |-> IF r.file_id \in DOMAIN temp' THEN temp'[r.file_id]
                            ELSE EmptyFn]]
       ELSE hist

\* One request at a time: a single client that waits for each response.
NextSeq ==
    /\ pc[1] = "idle" => nreq < MaxSeqRequests
    /\ \/ upload_file_upto(1, MaxSeqChunks)
       \/ delete_file(1)
       \/ Handle(1)
    /\ hist' = Observed
    /\ UNCHANGED api_vars

SpecSeq == Init /\ [][NextSeq]_vars

\* The API service alone, on any of the file systems of ApiTrees.
InitApi ==
    /\ InitServer
    /\ api_fs \in ApiTrees
    /\ api_rq = NoApiRequest
    /\ api_resp = NoApiResponse
    /\ api_nreq = 0

NextApi ==
    /\ get_directory_size \/ copy_file
    /\ UNCHANGED server_vars

SpecApi == InitApi /\ [][NextApi]_vars

\* ---------------------------------------------------------------- claims
RECURSIVE Concat(_, _)
\* The bytes of chunks 1..n of a chunk directory, in ascending index order.
Concat(chunks, n) == IF n = 0 THEN <<>> ELSE Concat(chunks, n - 1) \o chunks[n]

\* Thread p takes a step / sends its response in this step.
Acts(p) == pc'[p] # pc[p] \/ rq'[p].chunk_num # rq[p].chunk_num \/ nreq' # nreq
Responds(p) == pc[p] # "idle" /\ pc'[p] = "idle"

\* The chunk directory of upload-id `id` in file system fs (empty if absent).
ChunksOf(fs, id) == IF id \in DOMAIN fs.temp THEN fs.temp[id] ELSE EmptyFn

\* The chunk files a request found when it arrived.
Found(r) == ChunksOf(r.old, r.file_id)

\* The smallest index of 1..n with no chunk file, 0 if there is none.
FirstMissing(chunks, n) ==
    IF \A k \in 1..n : k \in DOMAIN chunks THEN 0
    ELSE CHOOSE k \in 1..n :
            k \notin DOMAIN chunks /\ \A j \in 1..(k - 1) : j \in DOMAIN chunks

\* C1 (round trip).  With one request at a time: a chunk request that is not
\* the final one answers chunk_uploaded and leaves its bytes in the chunk
\* file of its index; and a final request (chunk_number = total_chunks = N)
\* that finds exactly the chunks 1..N-1 of this upload (or also an earlier
\* chunk N) answers 'completed' and leaves, under the sanitized target name,
\* the bytes of chunks 1..N-1 followed by its own, in ascending order.
RoundTrip ==
    [][\A p \in Procs :
        (Responds(p) /\ rq[p].is_chunk /\ rq[p].solo) =>
            LET r == rq[p]
                N == r.total_chunks
            IN /\ (r.chunk_number # N) =>
                    /\ resp'[p] = Response(200, "chunk_uploaded", r.chunk_number)
                    /\ ChunksOf(FS', r.file_id) =
                          (r.chunk_number :> r.data) @@ Found(r)
               /\ (r.chunk_number = N /\ DOMAIN Found(r) \in {1..(N - 1), 1..N}) =>
                    /\ resp'[p] = Response(200, "completed", 0)
                    /\ get_file_path(r.filename) \in DOMAIN storage'
                    /\ storage'[get_file_path(r.filename)] =
                          Concat((N :> r.data) @@ Found(r), N)]_vars

\* A two-chunk upload has completed and the stored file is chunk 1 then
\* chunk 2.
RoundTripReached ==
    /\ resp[1] = Response(200, "completed", 0)
    /\ "a_b" \in DOMAIN storage
    /\ storage["a_b"] = <<1, 2>>
    /\ temp = EmptyFn

\* C2 (gap detection).  With one request at a time: a final request that
\* arrives while some chunk of 1..total_chunks-1 has no chunk file fails with
\* the file-not-found error of the lowest missing index and does not answer
\* 'completed'.
GapDetected ==
    [][\A p \in Procs :
        (/\ Responds(p) /\ rq[p].is_chunk /\ rq[p].solo
         /\ rq[p].chunk_number = rq[p].total_chunks
         /\ \E k \in 1..(rq[p].total_chunks - 1) : k \notin DOMAIN Found(rq[p]))
        => /\ resp'[p] = Response(500, "FileNotFoundError",
                                  FirstMissing(Found(rq[p]), rq[p].total_chunks - 1))
           /\ resp'[p].body # "completed"]_vars

\* A final chunk 2 was sent with chunk 1 never uploaded: the request failed
\* on chunk 1 and chunk 2 is still in the temporary area.
GapDetectedReached ==
    /\ resp[1] = Response(500, "FileNotFoundError", 1)
    /\ "u1" \in DOMAIN temp
    /\ DOMAIN temp["u1"] = {2}

\* The contents a finished upload can leave: a whole payload, or the
\* concatenation of N payloads.
CompleteContents ==
    Data \cup UNION {{Concat(cs, N) : cs \in [1..N -> Data]} : N \in 1..MaxChunks}

\* Names a client may ask to download.
DownloadNames == RawNames \cup {secure_filename(n) : n \in RawNames}

\* C3 (partial-state invisibility).  Every file that is listed or served for
\* download holds the complete content of a direct upload or of a reassembled
\* chunk set, and no file is listed while a request is still writing it.
PartialNeverVisible ==
    /\ \A n \in DOMAIN list_files : storage[n] \in CompleteContents
    /\ \A n \in DownloadNames :
          download_file(n).status = 200 => download_file(n).body \in CompleteContents
    /\ \A p \in Procs :
          pc[p] \in {"concat", "save_write"} =>
              get_file_path(rq[p].filename) \notin DOMAIN list_files

\* C4 (listing visibility).  No step of a chunk request whose chunk_number
\* differs from its total_chunks changes the listing, and the listing never
\* shows the temporary area.
PartialUploadNotListed ==
    /\ [][\A p \in Procs :
            (/\ Acts(p)
             /\ \/ rq[p].is_chunk /\ rq[p].chunk_number # rq[p].total_chunks
                \/ /\ pc[p] = "idle" /\ rq'[p].is_chunk
                   /\ rq'[p].chunk_number # rq'[p].total_chunks)
            => list_files' = list_files]_vars
    /\ []("temp" \notin DOMAIN list_files)

\* Chunk 1 of 2 is in the temporary area, no completion was signalled, and
\* the listing is empty.
PartialUploadNotListedReached ==
    /\ resp[1] = Response(200, "chunk_uploaded", 1)
    /\ temp_root
    /\ "u1" \in DOMAIN temp
    /\ 1 \in DOMAIN temp["u1"]
    /\ DOMAIN list_files = {}

\* C5 (clean-up).  When a request answers 'completed', that is when
\* assemble_file_from_chunks has returned, the temporary directory of its
\* upload-id does not exist, and with it no chunk file of that upload-id.
CleanupAfterSuccess ==
    [][\A p \in Procs :
        (Responds(p) /\ resp'[p].body = "completed") =>
            /\ rq[p].is_chunk
            /\ rq[p].file_id \notin DOMAIN temp']_vars

\* A reassembly has succeeded with both threads at rest, and no temporary
\* directory is left.
CleanupReached ==
    /\ \E p \in Procs : resp[p] = Response(200, "completed", 0)
    /\ \A p \in Procs : pc[p] = "idle"
    /\ temp_root
    /\ temp = EmptyFn

\* The chunk directory `chunks` without the files of indices 1..n.
Above(chunks, n) == [k \in DOMAIN chunks \ (1..n) |-> chunks[k]]

\* save_file_chunk run to its end with no other request in flight.
SerialSave(fs, r) ==
    [fs EXCEPT !.temp_root = TRUE,
               !.temp = (r.file_id :> ((r.chunk_number :> r.data) @@ ChunksOf(fs, r.file_id)))
                        @@ fs.temp]

\* assemble_file_from_chunks run to its end with no other request in
\* flight: the file system it leaves and the response of upload_file.
SerialAssemble(fs, r) ==
    LET id == r.file_id
        N == r.total_chunks
        name == get_file_path(r.filename)
        chunks == ChunksOf(fs, id)
        m == FirstMissing(chunks, N)
        written(n) == (name :> Concat(chunks, n)) @@ fs.storage
    IN IF m # 0
       THEN [fs |-> [fs EXCEPT !.storage = written(m - 1)],
             resp |-> Response(500, "FileNotFoundError", m)]
       ELSE IF DOMAIN Above(chunks, N) # {}
       THEN [fs |-> [fs EXCEPT !.storage = written(N),
                               !.temp = (id :> Above(chunks, N)) @@ fs.temp],
             resp |-> Response(500, "OSError", 0)]
       ELSE [fs |-> [fs EXCEPT !.storage = written(N), !.temp = Without(fs.temp, id)],
             resp |-> Response(200, "completed", 0)]

\* upload_file on a chunk request run to its end with no other request in
\* flight.
SerialUpload(fs, r) ==
    IF r.chunk_number = r.total_chunks
    THEN SerialAssemble(SerialSave(fs, r), r)
    ELSE [fs |-> SerialSave(fs, r),
          resp |-> Response(200, "chunk_uploaded", r.chunk_number)]

\* With one request at a time the steps of a chunk request add up to
\* SerialUpload.
StepsAddUp ==
    [][\A p \in Procs :
        (Responds(p) /\ rq[p].is_chunk /\ rq[p].solo) =>
            [fs |-> FS', resp |-> resp'[p]] = SerialUpload(rq[p].old, rq[p])]_vars

\* The outcome of running request a and then request b from fs: the file
\* system and the two responses.
SerialOutcome(fs, a, b) ==
    LET x == SerialUpload(fs, a)
        y == SerialUpload(x.fs, b)
    IN [fs |-> y.fs, first |-> x.resp, second |-> y.resp]

\* C6 (concurrent chunk uploads, different indices).  When two chunk uploads
\* of one upload-id with different indices, started in the same file-system
\* state, have both been answered, the chunk files, the stored file and the
\* two responses are those of running the two requests one after the other
\* in one of the two orders.
ConcurrentChunksSerializable ==
    (pair.on /\ \A p \in Procs : pc[p] = "idle") =>
        \E o \in {"first then second", "second then first"} :
            LET out == [fs |-> FS, first |-> resp[pair.p1], second |-> resp[pair.p2]]
                ab == SerialOutcome(pair.old, pair.first, pair.second)
                ba == SerialOutcome(pair.old, pair.second, pair.first)
            IN IF o = "first then second"
               THEN out = ab
               ELSE out = [fs |-> ba.fs, first |-> ba.second, second |-> ba.first]

\* A request is inside assemble_file_from_chunks.
Reassembling(p) == pc[p] \in {"assemble_open", "concat", "remove", "rmdir"}

\* C7 (at most one reassembly per upload-id).  No two requests are inside
\* assemble_file_from_chunks for the same upload-id at the same time.
AtMostOneReassembly ==
    \A p, q \in Procs :
        (p # q /\ Reassembling(p) /\ Reassembling(q)) => rq[p].file_id # rq[q].file_id

\* C8 (re-upload idempotence).  With one request at a time: a chunk request
\* that is not the final one and finds the chunk file of its index already
\* holding the bytes it carries leaves the whole file system as it found it,
\* so a later reassembly reads what it would have read without the
\* re-upload.
ReuploadIdempotent ==
    [][\A p \in Procs :
        (/\ Responds(p) /\ rq[p].is_chunk /\ rq[p].solo
         /\ rq[p].chunk_number # rq[p].total_chunks
         /\ rq[p].chunk_number \in DOMAIN Found(rq[p])
         /\ Found(rq[p])[rq[p].chunk_number] = rq[p].data)
        => /\ FS' = rq[p].old
           /\ resp'[p] = Response(200, "chunk_uploaded", rq[p].chunk_number)]_vars

\* A re-upload of identical bytes is in flight: the chunk file it found with
\* those bytes is truncated and waits for the write.
ReuploadReached ==
    /\ pc[1] = "chunk_write"
    /\ rq[1].solo
    /\ rq[1].chunk_number # rq[1].total_chunks
    /\ rq[1].chunk_number \in DOMAIN Found(rq[1])
    /\ Found(rq[1])[rq[1].chunk_number] = rq[1].data
    /\ temp[rq[1].file_id][rq[1].chunk_number] = <<>>

\* The API service answers a request in this step.
ApiAnswers == api_nreq' # api_nreq

\* C9 (auth invariant).  Every request to an endpoint that depends on
\* verify_token whose Authorization header is missing or is not
\* 'Bearer <token>' is answered 401 and leaves the file system unchanged.
AuthInvariant ==
    [][(ApiAnswers /\ api_rq'.authorization # "Bearer " \o API_TOKEN) =>
          /\ api_resp'.status = 401
          /\ api_fs' = api_fs]_vars

\* C10 (copy without overwrite).  A copy_file request with a valid token
\* whose source and destination exist, with overwrite false, is answered 400
\* and leaves the destination's bytes unchanged.
CopyWithoutOverwrite ==
    [][(/\ ApiAnswers
        /\ api_rq'.endpoint = "copy_file"
        /\ api_rq'.authorization = "Bearer " \o API_TOKEN
        /\ exists(api_fs, api_rq'.source)
        /\ exists(api_fs, api_rq'.destination)
        /\ ~api_rq'.overwrite)
       => /\ api_resp'.status = 400
          /\ api_fs'[Resolve(api_fs, api_rq'.destination)]
                = api_fs[Resolve(api_fs, api_rq'.destination)]]_vars

\* C11 (copy with a missing source).  A copy_file request with a valid token
\* whose source path does not exist is answered 404 and leaves the file
\* system unchanged.
CopyMissingSource ==
    [][(/\ ApiAnswers
        /\ api_rq'.endpoint = "copy_file"
        /\ api_rq'.authorization = "Bearer " \o API_TOKEN
        /\ ~exists(api_fs, api_rq'.source))
       => /\ api_resp'.status = 404
          /\ api_fs' = api_fs]_vars

\* path lies below the directory top, at any depth.
RECURSIVE IsUnder(_, _)
IsUnder(path, top) ==
    IF path = "/" THEN FALSE
    ELSE Parent(path) = top \/ IsUnder(Parent(path), top)

\* The regular files anywhere under the directory that path names; a
\* symbolic link is no regular file.
RegularFilesUnder(fs, path) ==
    {f \in DOMAIN fs : fs[f].kind = "file" /\ IsUnder(f, Resolve(fs, path))}

RECURSIVE TotalBytes(_, _)
TotalBytes(fs, files) ==
    IF files = {} THEN 0
    ELSE LET f == CHOOSE x \in files : TRUE
         IN Len(fs[f].data) + TotalBytes(fs, files \ {f})

\* C12 (directory size).  A directory_size request with a valid token is
\* answered 200 with size_bytes equal to the sum of the sizes of all regular
\* files anywhere under the path; no symbolic link, to a file or to a
\* directory, inside or outside the tree, adds to the sum.
DirectorySizeIsSum ==
    [][(/\ ApiAnswers
        /\ api_rq'.endpoint = "directory_size"
        /\ api_rq'.authorization = "Bearer " \o API_TOKEN)
       => /\ api_resp'.status = 200
          /\ api_resp'.size_bytes = TotalBytes(api_fs, RegularFilesUnder(api_fs, api_rq'.path))
          /\ api_fs' = api_fs]_vars

\* The size of /d was reported for a tree with two files, a file in a
\* subdirectory, a link to the 3-byte file /e and a link to the
\* subdirectory: the sum of the three regular files alone.
DirectorySizeReached ==
    /\ api_rq.endpoint = "directory_size"
    /\ api_rq.path = "/d"
    /\ api_resp.status = 200
    /\ {"/d/a", "/d/b", "/d/k", "/d/l", "/d/s/c"} \subseteq DOMAIN api_fs
    /\ api_fs["/d/l"] = Link("/e")
    /\ api_fs["/d/a"] = File(<<1>>)
    /\ api_fs["/d/b"] = File(<<2, 2>>)
    /\ api_fs["/d/s/c"] = File(<<2, 2>>)
    /\ api_resp.size_bytes = 5

\* C13 (reassembly only on the completion signal).  A request is inside
\* assemble_file_from_chunks only if it is a chunk request whose chunk_number
\* equals its total_chunks; and no step of a chunk request whose chunk_number
\* differs from its total_chunks creates, writes or removes a file of the
\* storage root, whatever chunk files are present.
ReassemblyOnlyOnCompletion ==
    /\ [](\A p \in Procs :
            Reassembling(p) =>
                rq[p].is_chunk /\ rq[p].chunk_number = rq[p].total_chunks)
    /\ [][\A p \in Procs :
            (/\ Acts(p)
             /\ \/ rq[p].is_chunk /\ rq[p].chunk_number # rq[p].total_chunks
                \/ /\ pc[p] = "idle" /\ rq'[p].is_chunk
                   /\ rq'[p].chunk_number # rq'[p].total_chunks)
            => /\ storage' = storage
               /\ ~Reassembling(p)'
               /\ Responds(p) => resp'[p].body # "completed"]_vars

\* The final chunk 2 of 2 was sent first and its reassembly failed on chunk
\* 1; chunk 1 was then uploaded and answered chunk_uploaded: both chunk files
\* are present and the destination is still the empty file the failed
\* reassembly left.
NoRetryReached ==
    /\ \A p \in Procs : pc[p] = "idle"
    /\ resp[1] = Response(200, "chunk_uploaded", 1)
    /\ "u1" \in DOMAIN temp
    /\ DOMAIN temp["u1"] = {1, 2}
    /\ "a_b" \in DOMAIN storage
    /\ storage["a_b"] = <<>>

\* C14 (truncated output on a gap).  With one request at a time: when a
\* final request fails because k is the lowest index of 1..total_chunks with
\* no chunk file, the destination exists when the request is answered and
\* holds exactly the bytes of chunks 1..k-1 in ascending order, whatever it
\* held before.
TruncatedOnGap ==
    [][\A p \in Procs :
        (/\ Responds(p) /\ rq[p].is_chunk /\ rq[p].solo
         /\ rq[p].chunk_number = rq[p].total_chunks
         /\ FirstMissing((rq[p].total_chunks :> rq[p].data) @@ Found(rq[p]),
                         rq[p].total_chunks) # 0)
        => LET r == rq[p]
               k == FirstMissing((r.total_chunks :> r.data) @@ Found(r), r.total_chunks)
               name == get_file_path(r.filename)
           IN /\ resp'[p] = Response(500, "FileNotFoundError", k)
              /\ name \in DOMAIN storage'
              /\ storage'[name] = Concat(Found(r), k - 1)]_vars

\* Chunks 1 and 3 of 3 are present and chunk 2 is not: the reassembly failed
\* on chunk 2 and the destination holds the bytes of chunk 1 alone.
TruncatedOnGapReached ==
    /\ pc[1] = "idle"
    /\ resp[1] = Response(500, "FileNotFoundError", 2)
    /\ "u1" \in DOMAIN temp
    /\ DOMAIN temp["u1"] = {1, 3}
    /\ "a_b" \in DOMAIN storage
    /\ storage["a_b"] = temp["u1"][1]

\* Thread p takes a step of the concatenation phase of
\* assemble_file_from_chunks: the open of the destination or a turn of the
\* concatenation loop.
Concatenates(p) ==
    /\ pc[p] \in {"assemble_open", "concat"}
    /\ pc'[p] # pc[p] \/ rq'[p].chunk_num # rq[p].chunk_num

\* C15 (a failure leaves the chunks untouched).  No step of the
\* concatenation phase, failing or not, creates, changes or removes a chunk
\* file or a temporary directory, under any interleaving; and when the
\* reassembly of a request that runs alone fails in the concatenation phase,
\* the temporary directory still exists and holds exactly the chunk files
\* that were there when the reassembly started, with their bytes.
ChunksUntouchedOnFailure ==
    [][\A p \in Procs :
        /\ Concatenates(p) => (temp' = temp /\ temp_root' = temp_root)
        /\ (Responds(p) /\ pc[p] = "concat" /\ rq[p].solo) =>
              /\ resp'[p].status = 500
              /\ rq[p].file_id \in DOMAIN temp'
              /\ temp'[rq[p].file_id] =
                    (rq[p].total_chunks :> rq[p].data) @@ Found(rq[p])]_vars

\* A reassembly with a derived upload-id failed on chunk 1: chunk 2 is still
\* in its temporary directory with its bytes.
ChunksUntouchedReached ==
    /\ \A p \in Procs : pc[p] = "idle"
    /\ resp[1] = Response(500, "FileNotFoundError", 1)
    /\ temp_root
    /\ md5("a b") \in DOMAIN temp
    /\ temp[md5("a b")] = (2 :> <<2>>)

\* C16 (collision on the derived upload-id).  With one request at a time: a
\* chunk request without the form field file_id works in the temporary
\* directory named by the md5 of its target filename and by nothing else; it
\* writes its chunk file there over whatever an earlier request left; and a
\* final request that finds chunks 1..N-1 there answers 'completed' and
\* stores the chunk files it found, whichever upload they came from, followed
\* by its own bytes.
DerivedIdCollision ==
    /\ [](\A p \in Procs :
            (rq[p].is_chunk /\ rq[p].given = Omitted) =>
                rq[p].file_id = md5(rq[p].filename))
    /\ [][\A p \in Procs :
            (Responds(p) /\ rq[p].is_chunk /\ rq[p].solo /\ rq[p].given = Omitted) =>
                LET r == rq[p]
                    N == r.total_chunks
                    area == ChunksOf(r.old, md5(r.filename))
                IN /\ (r.chunk_number # N) =>
                        /\ md5(r.filename) \in DOMAIN temp'
                        /\ temp'[md5(r.filename)] = (r.chunk_number :> r.data) @@ area
                   /\ (r.chunk_number = N /\ DOMAIN area \in {1..(N - 1), 1..N}) =>
                        /\ resp'[p] = Response(200, "completed", 0)
                        /\ storage'[get_file_path(r.filename)] =
                              Concat(area, N - 1) \o r.data]_vars

\* Two uploads of the same filename without file_id, one of chunks <<1>>
\* and <<1>>, the other of chunks <<2>> and <<2>>: the final request of the
\* first has completed, and the stored file is chunk 1 of the second
\* followed by chunk 2 of the first.
DerivedIdCollisionReached ==
    /\ pc[1] = "idle"
    /\ nreq = 3
    /\ hist.clash = [on |-> TRUE, file_id |-> md5("a b"), index |-> 1,
                     was |-> <<1>>, now |-> <<2>>]
    /\ resp[1] = Response(200, "completed", 0)
    /\ hist.done.on
    /\ hist.done.file_id = md5("a b")
    /\ hist.done.data = <<1>>
    /\ hist.done.fs = FS
    /\ storage["a_b"] = <<2, 1>>

\* C17 (recovery after a failed reassembly).  With one request at a time:
\* after a reassembly of N chunks failed on a missing chunk, a final request
\* for the same upload that carries the same final bytes and finds exactly
\* the chunks 1..N, those the failure left still holding their bytes,
\* answers 'completed', stores the concatenation of chunks 1..N and removes
\* the temporary directory.
RecoveryAfterFailure ==
    [][\A p \in Procs :
        (/\ Responds(p) /\ rq[p].is_chunk /\ rq[p].solo
         /\ rq[p].chunk_number = rq[p].total_chunks
         /\ hist.failed.on
         /\ hist.failed.file_id = rq[p].file_id
         /\ hist.failed.filename = rq[p].filename
         /\ hist.failed.total_chunks = rq[p].total_chunks
         /\ DOMAIN Found(rq[p]) = 1..rq[p].total_chunks
         /\ DOMAIN hist.failed.chunks \subseteq DOMAIN Found(rq[p])
         /\ \A k \in DOMAIN hist.failed.chunks : Found(rq[p])[k] = hist.failed.chunks[k]
         /\ Found(rq[p])[rq[p].total_chunks] = rq[p].data)
        => /\ resp'[p] = Response(200, "completed", 0)
           /\ get_file_path(rq[p].filename) \in DOMAIN storage'
           /\ storage'[get_file_path(rq[p].filename)] =
                 Concat(Found(rq[p]), rq[p].total_chunks)
           /\ rq[p].file_id \notin DOMAIN temp']_vars

\* The final chunk 2 of 2 was sent with chunk 1 missing and failed; chunk 1
\* was uploaded; the final chunk was sent again and the upload completed with
\* both chunks in order and no temporary directory left.
RecoveryReached ==
    /\ pc[1] = "idle"
    /\ resp[1] = Response(200, "completed", 0)
    /\ hist.done.on /\ hist.done.recovered
    /\ hist.done.fs = FS
    /\ hist.done.total_chunks = 2
    /\ storage["a_b"] = <<1, 2>>
    /\ temp = EmptyFn

\* C18 (retry of the final chunk after completion).  With one request at a
\* time: when an upload of N chunks has completed and the next request
\* repeats its final-chunk request (the same upload-id, target name, N and
\* bytes), the stored file holds afterwards the bytes the completed upload
\* left.
FinalRetryKeepsFile ==
    [][\A p \in Procs :
        (/\ Responds(p) /\ rq[p].is_chunk /\ rq[p].solo
         /\ rq[p].chunk_number = rq[p].total_chunks
         /\ hist.done.on
         /\ hist.done.file_id = rq[p].file_id
         /\ hist.done.filename = rq[p].filename
         /\ hist.done.total_chunks = rq[p].total_chunks
         /\ hist.done.data = rq[p].data
         /\ hist.done.fs = rq[p].old)
        => /\ get_file_path(rq[p].filename) \in DOMAIN storage'
           /\ storage'[get_file_path(rq[p].filename)] =
                 hist.done.fs.storage[get_file_path(rq[p].filename)]]_vars

\* Thread p takes a step of save_file_chunk or assemble_file_from_chunks.
Works(p) ==
    /\ rq[p].is_chunk
    /\ pc[p] \in {"makedirs", "chunk_open", "chunk_write",
                  "assemble_open", "concat", "remove", "rmdir"}
    /\ pc'[p] # pc[p] \/ rq'[p].chunk_num # rq[p].chunk_num

\* C19 (session isolation).  Under any interleaving, a step of
\* save_file_chunk or assemble_file_from_chunks for upload-id A leaves the
\* temporary directory of every other upload-id B as it is: it neither
\* creates nor removes the directory, and creates, changes or removes no
\* chunk file in it.
SessionIsolation ==
    [][\A p \in Procs :
        Works(p) =>
            \A B \in (DOMAIN temp \cup DOMAIN temp') \ {rq[p].file_id} :
                /\ B \in DOMAIN temp /\ B \in DOMAIN temp'
                /\ temp'[B] = temp[B]]_vars

\* An upload with the derived upload-id has completed while chunk 1 of an
\* upload with the upload-id u1 waits in its own temporary directory.
SessionIsolationReached ==
    /\ \A p \in Procs : pc[p] = "idle"
    /\ \E p \in Procs : resp[p] = Response(200, "completed", 0)
    /\ "a_b" \in DOMAIN storage
    /\ DOMAIN temp = {"u1"}
    /\ DOMAIN temp["u1"] = {1}

====
